---------------------------- MODULE Spec2Model ----------------------------
(***************************************************************************)
(* Monte Carlo stock simulator: simulate_price_paths, get_price_statistics *)
(* and time_to_target of monte_carlo.py, and the risk metrics of app.py.   *)
(*                                                                         *)
(* Numbers.  A float is modelled by the exact rational it stands for, a    *)
(* pair <<n, d>> in lowest terms with d > 0, so that equality of two       *)
(* floats is equality of the pairs.  Rounding, overflow and underflow of   *)
(* float64 are outside the model.  mu, sigma and the normal variates live  *)
(* on an integer grid of log-units and np.exp is taken to the base 2 on    *)
(* that grid: exp(0) = 1, exp(a + b) = exp(a) * exp(b), exp > 0.           *)
(***************************************************************************)
EXTENDS Integers, Sequences, FiniteSets

VARIABLES
    S0, mu, sigma, days, sims, shock_size, shock_day, \* arguments of the call
    pc,            \* position: "idle", "loop", "returned", an exception, ...
    t,             \* loop variable of simulate_price_paths
    z,             \* the last batch of variates drawn
    paths,         \* the price matrix, rows 1..days, columns 1..sims
    unshocked,     \* the matrix of the same call made without a shock,
                   \* on the same variates
    rng,           \* state of numpy's global generator
    drawn,         \* variates the current call has drawn
    calls,         \* calls made so far
    results,       \* the matrices the calls returned, in order
    current_price, \* app.py: the price the returns are measured against
    target,        \* argument of time_to_target
    hit_days,      \* result of time_to_target
    stats,         \* result of get_price_statistics
    sharpe_ratio   \* app.py: the Sharpe ratio

vars == <<S0, mu, sigma, days, sims, shock_size, shock_day, pc, t, z, paths,
          unshocked, rng, drawn, calls, results, current_price, target,
          hit_days, stats, sharpe_ratio>>

simVars == <<S0, mu, sigma, days, sims, shock_size, shock_day, t, z,
             unshocked, rng, drawn, calls, results>>

-----------------------------------------------------------------------------
(* Bounds of the model *)

MaxDays == 3
MaxSims == 2
MaxCalls == 2
MaxRows == 4
MaxCols == 4
MaxCells == 6

-----------------------------------------------------------------------------
(* Exact arithmetic on floats *)

Abs(x) == IF x < 0 THEN -x ELSE x

RECURSIVE GCD(_, _)
GCD(a, b) == IF b = 0 THEN a ELSE GCD(b, a % b)

Norm(n, d) ==
    LET g == GCD(Abs(n), Abs(d))
        s == IF d < 0 THEN -1 ELSE 1
    IN  <<(s * n) \div g, (s * d) \div g>>

Float(x) == <<x, 1>>

Mul(a, b) == Norm(a[1] * b[1], a[2] * b[2])
Add(a, b) == Norm(a[1] * b[2] + b[1] * a[2], a[2] * b[2])
Sub(a, b) == Norm(a[1] * b[2] - b[1] * a[2], a[2] * b[2])
Div(a, b) == Norm(a[1] * b[2], a[2] * b[1])
Leq(a, b) == a[1] * b[2] <= b[1] * a[2]
Less(a, b) == a[1] * b[2] < b[1] * a[2]

Zero == Float(0)
One == Float(1)

RECURSIVE Pow2(_)
Pow2(n) == IF n = 0 THEN 1 ELSE 2 * Pow2(n - 1)

NpExp(x) == IF x >= 0 THEN <<Pow2(x), 1>> ELSE <<1, Pow2(-x)>>

-----------------------------------------------------------------------------
(* numpy's global generator: its state is a position on a cycle in which   *)
(* every triple of variates occurs; standard_normal(n) reads the next n    *)
(* variates and advances the state by n.                                   *)

Cycle == <<-1, -1, -1, 1, -1, 1, 1, 1>>

Advance(state, n) == (state + n) % Len(Cycle)

StandardNormal(state, n) == [k \in 1..n |-> Cycle[Advance(state, k - 1) + 1]]

-----------------------------------------------------------------------------
(* simulate_price_paths *)

dt == 1

\* paths[i] of Python, i counted from 0, a negative i from the end
Row(p, i) == IF i < 0 THEN p[Len(p) + i + 1] ELSE p[i + 1]

\* np.zeros((days, sims)) followed by paths[0] = S0
InitialPaths(s0, nd, ns) ==
    [i \in 1..nd |-> [j \in 1..ns |-> IF i = 1 THEN Float(s0) ELSE Zero]]

\* (mu - 0.5 * sigma**2) * dt + sigma * np.sqrt(dt) * z
ExponentIgnoringSigma(m, sg, zz) == (m - (sg * sg) \div 2) * dt + dt * zz
Exponent(m, sg, zz) == (m - (sg * sg) \div 2) * dt + sg * dt * zz

\* paths[t-1] * np.exp(...), one entry per column
GbmRow(prev, m, sg, zs) ==
    [j \in 1..Len(prev) |-> Mul(prev[j], NpExp(Exponent(m, sg, zs[j])))]

\* shock_day is <<>> for None and <<d>> for the integer d
Truthy(sd) == Len(sd) > 0 /\ sd[1] # 0

ShockAppliesOnIndex(sd, tt) == Truthy(sd) /\ tt = sd[1]
ShockAppliesLate(sd, tt) == Truthy(sd) /\ tt = sd[1] - 2
ShockApplies(sd, tt) == Truthy(sd) /\ tt = sd[1] - 1

ShockFactor(ss) == Add(One, Norm(ss, 100))

ScaleRow(row, f) == [j \in 1..Len(row) |-> Mul(row[j], f)]

\* one pass of the loop body on matrix p, without the draw
LoopBody(p, tt, m, sg, zs, ss, sd) ==
    LET stepped == [p EXCEPT ![tt + 1] = GbmRow(Row(p, tt - 1), m, sg, zs)]
    IN  IF ShockApplies(sd, tt)
        THEN [stepped EXCEPT ![tt + 1] = ScaleRow(stepped[tt + 1], ShockFactor(ss))]
        ELSE stepped

LoopStartAtZero == 1 - 1
LoopStart == 1

LoopDoneEarly(tt, nd) == tt >= nd - 1
LoopDone(tt, nd) == tt >= nd

S0Vals == {-1, 0, 100}
MuVals == {-1, 0, 1}
SigmaVals == {-2, 0, 2}
ShockSizes == {-200, -100, 0, 50}
ShockDays == {<<>>} \cup {<<d>> : d \in -1..(MaxDays + 1)}

NoAnalysis ==
    /\ current_price = 0
    /\ target = 0
    /\ hit_days = <<>>
    /\ stats = <<>>
    /\ sharpe_ratio = <<>>

Init ==
    /\ S0 \in S0Vals
    /\ mu \in MuVals
    /\ sigma \in SigmaVals
    /\ days \in -1..MaxDays
    /\ sims \in -1..MaxSims
    /\ shock_size \in ShockSizes
    /\ shock_day \in ShockDays
    /\ rng \in 0..(Len(Cycle) - 1)
    /\ pc = "idle"
    /\ t = 0
    /\ z = <<>>
    /\ paths = <<>>
    /\ unshocked = <<>>
    /\ drawn = 0
    /\ calls = 0
    /\ results = <<>>
    /\ NoAnalysis

analysisVars == <<current_price, target, hit_days, stats, sharpe_ratio>>

\* lines 21-27: the conversions, np.zeros and paths[0] = S0
Call ==
    /\ pc \in {"idle", "returned"}
    /\ calls < MaxCalls
    /\ calls' = calls + 1
    /\ drawn' = 0
    /\ z' = <<>>
    /\ IF days < 0 \/ sims < 0
       THEN /\ pc' = "ValueError"
            /\ UNCHANGED <<t, paths, unshocked>>
       ELSE IF days = 0
       THEN /\ pc' = "IndexError"
            /\ paths' = <<>>
            /\ UNCHANGED <<t, unshocked>>
       ELSE /\ pc' = "loop"
            /\ paths' = InitialPaths(S0, days, sims)
            /\ unshocked' = InitialPaths(S0, days, sims)
            /\ t' = LoopStart
    /\ UNCHANGED <<S0, mu, sigma, days, sims, shock_size, shock_day, rng, results>>
    /\ UNCHANGED analysisVars

\* lines 29-35: one iteration of the loop
Step ==
    /\ pc = "loop"
    /\ ~LoopDone(t, days)
    /\ z' = StandardNormal(rng, sims)
    /\ rng' = Advance(rng, sims)
    /\ drawn' = drawn + sims
    /\ paths' = LoopBody(paths, t, mu, sigma, z', shock_size, shock_day)
    /\ unshocked' = LoopBody(unshocked, t, mu, sigma, z', 0, <<>>)
    /\ t' = t + 1
    /\ UNCHANGED <<S0, mu, sigma, days, sims, shock_size, shock_day, pc, calls, results>>
    /\ UNCHANGED analysisVars

\* line 37
Return ==
    /\ pc = "loop"
    /\ LoopDone(t, days)
    /\ pc' = "returned"
    /\ results' = Append(results, paths)
    /\ UNCHANGED <<S0, mu, sigma, days, sims, shock_size, shock_day, t, z, paths,
                   unshocked, rng, drawn, calls>>
    /\ UNCHANGED analysisVars

Next == Call \/ Step \/ Return

Spec == Init /\ [][Next]_vars

-----------------------------------------------------------------------------
(* get_price_statistics *)

RECURSIVE Insert(_, _)
Insert(s, x) ==
    IF s = <<>> THEN <<x>>
    ELSE IF Leq(x, s[1]) THEN <<x>> \o s
    ELSE <<s[1]>> \o Insert(Tail(s), x)

RECURSIVE Sort(_)
Sort(s) == IF s = <<>> THEN <<>> ELSE Insert(Sort(Tail(s)), s[1])

RECURSIVE Sum(_)
Sum(s) == IF s = <<>> THEN Zero ELSE Add(s[1], Sum(Tail(s)))

NpMean(a) == Div(Sum(a), Float(Len(a)))

\* the middle order statistic, or the mean of the two middle ones
NpMedian(a) ==
    LET s == Sort(a)
        n == Len(a)
    IN  IF n % 2 = 1
        THEN s[(n + 1) \div 2]
        ELSE Div(Add(s[n \div 2], s[n \div 2 + 1]), Float(2))

\* linear interpolation between the order statistics around q/100 * (n-1)
NpPercentile(a, q) ==
    LET s == Sort(a)
        n == Len(a)
        lo == (q * (n - 1)) \div 100
        hi == IF lo + 1 > n - 1 THEN n - 1 ELSE lo + 1
        gamma == Sub(Norm(q * (n - 1), 100), Float(lo))
    IN  Add(s[lo + 1], Mul(Sub(s[hi + 1], s[lo + 1]), gamma))

StatisticsOf(final_prices) ==
    [mean |-> NpMean(final_prices),
     median |-> NpMedian(final_prices),
     p5 |-> NpPercentile(final_prices, 5),
     p95 |-> NpPercentile(final_prices, 95)]

get_price_statistics_first_row(p) == StatisticsOf(Row(p, 0))
get_price_statistics(p) == StatisticsOf(Row(p, -1))

-----------------------------------------------------------------------------
(* time_to_target *)

Column(p, sim) == [i \in 1..Len(p) |-> p[i][sim + 1]]

ReachesStrictly(price, tg) == Less(tg, price)
Reaches(price, tg) == Leq(tg, price)

\* np.where(column >= target)[0]: the row indices that qualify, ascending
NpWhere(col, tg) ==
    SelectSeq([i \in 1..Len(col) |-> i - 1], LAMBDA i : Reaches(col[i + 1], tg))

RECURSIVE HitDaysFrom(_, _, _, _)
HitDaysFrom(p, tg, sim, acc) ==
    IF sim >= Len(p[1]) THEN acc
    ELSE LET hits == NpWhere(Column(p, sim), tg)
         IN  HitDaysFrom(p, tg, sim + 1,
                         IF Len(hits) > 0 THEN Append(acc, hits[1]) ELSE acc)

time_to_target(p, tg) == HitDaysFrom(p, Float(tg), 0, <<>>)

-----------------------------------------------------------------------------
(* app.py, risk metrics.  The standard deviation is the square root of the *)
(* variance and is kept as <<"sqrt", variance>>; it is 0 exactly when the  *)
(* variance is.  A quotient by it is kept as <<"quot", x, std>>.           *)

SimReturns(final_prices, cp) ==
    [j \in 1..Len(final_prices) |-> Div(Sub(final_prices[j], cp), cp)]

NpStd(a) ==
    LET m == NpMean(a)
    IN  <<"sqrt", NpMean([j \in 1..Len(a) |-> Mul(Sub(a[j], m), Sub(a[j], m))])>>

StdIsZero(sd) == sd[2] = Zero

\* x / std of numpy scalars: nan or inf when std is 0
Quotient(x, sd) ==
    IF StdIsZero(sd)
    THEN IF x = Zero THEN <<"nan">> ELSE <<"inf">>
    ELSE <<"quot", x, sd>>

SharpeUnguarded(sim_returns) == Quotient(NpMean(sim_returns), NpStd(sim_returns))
Sharpe(sim_returns) ==
    IF ~StdIsZero(NpStd(sim_returns))
    THEN Quotient(NpMean(sim_returns), NpStd(sim_returns))
    ELSE <<"int", 0>>

-----------------------------------------------------------------------------
(* The analysis of a given matrix *)

PriceVals == {90, 100, 110, 120}
Targets == {95, 105, 110, 125}

Shapes ==
    {sh \in (1..MaxRows) \X (1..MaxCols) : (sh[1] - 1) * sh[2] <= MaxCells}

\* matrices whose row 0 is the current price 100
MatricesOf(d, s) ==
    {[i \in 1..d |->
        [j \in 1..s |-> IF i = 1 THEN Float(100) ELSE Float(rest[i - 1][j])]] :
     rest \in [1..(d - 1) -> [1..s -> PriceVals]]}

InitAnalyze ==
    /\ paths \in UNION {MatricesOf(sh[1], sh[2]) : sh \in Shapes}
    /\ current_price = 100
    /\ S0 = 100
    /\ mu = 0
    /\ sigma = 0
    /\ days = Len(paths)
    /\ sims = Len(paths[1])
    /\ shock_size = 0
    /\ shock_day = <<>>
    /\ pc = "input"
    /\ t = 0
    /\ z = <<>>
    /\ unshocked = <<>>
    /\ rng = 0
    /\ drawn = 0
    /\ calls = 0
    /\ results = <<>>
    /\ target = 0
    /\ hit_days = <<>>
    /\ stats = <<>>
    /\ sharpe_ratio = <<>>

\* app.py line 129
GetPriceStatistics ==
    /\ pc = "input"
    /\ stats' = get_price_statistics(paths)
    /\ pc' = "stats"
    /\ UNCHANGED <<paths, current_price, target, hit_days, sharpe_ratio>>
    /\ UNCHANGED simVars

TimeToTarget ==
    /\ pc = "input"
    /\ \E tg \in Targets :
        /\ target' = tg
        /\ hit_days' = time_to_target(paths, tg)
    /\ pc' = "hits"
    /\ UNCHANGED <<paths, current_price, stats, sharpe_ratio>>
    /\ UNCHANGED simVars

\* app.py lines 181-184
RiskMetrics ==
    /\ pc = "input"
    /\ sharpe_ratio' = Sharpe(SimReturns(Row(paths, -1), Float(current_price)))
    /\ pc' = "risk"
    /\ UNCHANGED <<paths, current_price, target, hit_days, stats>>
    /\ UNCHANGED simVars

NextAnalyze == GetPriceStatistics \/ TimeToTarget \/ RiskMetrics

SpecAnalyze == InitAnalyze /\ [][NextAnalyze]_vars

-----------------------------------------------------------------------------
(* Properties of simulate_price_paths *)

Returned == pc = "returned"

InvalidParameter == S0 <= 0 \/ days <= 0 \/ sims <= 0 \/ sigma < 0

Shape(p) == Len(p) = days /\ \A i \in 1..Len(p) : Len(p[i]) = sims

AllPositive(p) == \A i \in 1..Len(p) : \A j \in 1..Len(p[i]) : Less(Zero, p[i][j])

\* the shock reaches a row of the matrix: rows 1..days-1, counted from 0
ShockHits == Truthy(shock_day) /\ shock_day[1] \in 2..days

\* C1 as stated: whenever a call with days >= 1, sims >= 1, S0 > 0 and
\* sigma >= 0 returns, the matrix has days rows of sims columns and every
\* entry is > 0, whatever the shock.
C1_AsStated ==
    (Returned /\ days >= 1 /\ sims >= 1 /\ S0 > 0 /\ sigma >= 0)
        => (Shape(paths) /\ AllPositive(paths))

\* C1 amended: the shape always holds; every entry is > 0 when the shock
\* factor 1 + shock_size/100 is positive or the shock reaches no row.
C1_ShapeAndPositive ==
    (Returned /\ days >= 1 /\ sims >= 1 /\ S0 > 0 /\ sigma >= 0)
        => /\ Shape(paths)
           /\ (shock_size > -100 \/ ~ShockHits) => AllPositive(paths)

C1_Witness ==
    /\ Returned /\ days >= 2 /\ sims >= 2 /\ S0 > 0 /\ sigma > 0
    /\ ShockHits /\ shock_size > -100 /\ shock_size # 0
    /\ AllPositive(paths)

\* C2: in the returned matrix row 0 equals S0 in every column, for every
\* days >= 1, sims >= 1 and every shock, shock_day = 1 included.
C2_RowZeroIsS0 ==
    (Returned /\ days >= 1 /\ sims >= 1)
        => \A j \in 1..sims : Row(paths, 0)[j] = Float(S0)

C2_Witness ==
    /\ Returned /\ days >= 2 /\ sims >= 2 /\ S0 > 0
    /\ shock_day = <<1>> /\ shock_size # 0
    /\ Row(paths, 0) = <<Float(S0), Float(S0)>>

ShockedRowMatches(d) ==
    \A j \in 1..sims :
        Row(paths, d - 1)[j] = Mul(Row(unshocked, d - 1)[j], ShockFactor(shock_size))

ShockDayOutOfRange ==
    Len(shock_day) = 1 /\ (shock_day[1] < 1 \/ shock_day[1] > days)

\* C4: a call whose shock_day lies outside 1..days raises nothing and
\* returns the matrix of the call without a shock.
C4_OutOfRangeShockIgnored ==
    (days >= 1 /\ sims >= 0 /\ ShockDayOutOfRange)
        => /\ pc \in {"idle", "loop", "returned"}
           /\ Returned => paths = unshocked

C4_Witness ==
    /\ Returned /\ days >= 2 /\ sims >= 2 /\ S0 > 0 /\ sigma > 0
    /\ ShockDayOutOfRange /\ shock_day[1] = days + 1 /\ shock_size # 0
    /\ paths = unshocked

ColumnsEqual(p) ==
    \A i \in 1..Len(p) : \A j, k \in 1..Len(p[i]) : p[i][j] = p[i][k]

NoShock == shock_day = <<>> \/ shock_size = 0

\* C5: with sigma = 0 all columns of the returned matrix agree at every
\* row, two calls that drew different variates return the same matrix, and
\* with mu = 0 and no shock every entry is S0.
C5_ZeroSigma ==
    (Returned /\ sigma = 0 /\ days >= 1 /\ sims >= 1)
        => /\ ColumnsEqual(paths)
           /\ \A a, b \in 1..Len(results) : results[a] = results[b]
           /\ (mu = 0 /\ NoShock) =>
                  \A i \in 1..days : \A j \in 1..sims : paths[i][j] = Float(S0)

C5_Witness ==
    /\ Returned /\ sigma = 0 /\ mu # 0 /\ days >= 3 /\ sims >= 2 /\ S0 > 0
    /\ z[1] # z[2]
    /\ Len(results) = 2
    /\ ColumnsEqual(paths)

\* C8: a call with S0 <= 0, days <= 0, sims <= 0 or sigma < 0 fails before
\* a row is generated or a variate drawn, and returns no matrix.
C8_InvalidRejected ==
    InvalidParameter => (~Returned /\ drawn = 0)

\* C9: a call reads and advances no state shared between calls, so two calls
\* with the same arguments return equal matrices.
C9_CallsAgree ==
    ~InvalidParameter => \A a, b \in 1..Len(results) : results[a] = results[b]

-----------------------------------------------------------------------------
(* Properties of the analysis *)

LastRow == paths[Len(paths)]

Hit(i, j) == Leq(Float(target), paths[i + 1][j])
HitColumns == {j \in 1..sims : \E i \in 0..(days - 1) : Hit(i, j)}
FirstHit(j) == CHOOSE i \in 0..(days - 1) : Hit(i, j) /\ \A k \in 0..(i - 1) : ~Hit(k, j)
NthHitColumn(n) == CHOOSE j \in HitColumns : Cardinality({h \in HitColumns : h <= j}) = n

\* C6: time_to_target returns, for the columns that reach the target taken
\* in column order, the smallest row index at which each does; the other
\* columns add nothing; the column 100, 90, 110, 120 with target 105 gives 2.
C6_HitDays ==
    /\ pc = "hits" =>
        /\ Len(hit_days) = Cardinality(HitColumns)
        /\ Len(hit_days) <= sims
        /\ \A n \in 1..Len(hit_days) : hit_days[n] = FirstHit(NthHitColumn(n))
    /\ time_to_target(<<<<Float(100)>>, <<Float(90)>>, <<Float(110)>>, <<Float(120)>>>>, 105)
           = <<2>>

C6_Witness ==
    /\ pc = "hits" /\ sims = 3 /\ target = 110
    /\ HitColumns = {1, 3}
    /\ hit_days = <<2, 1>>

Smallest(row) == CHOOSE x \in {row[j] : j \in 1..Len(row)} : \A j \in 1..Len(row) : Leq(x, row[j])
Largest(row) == CHOOSE x \in {row[j] : j \in 1..Len(row)} : \A j \in 1..Len(row) : Leq(row[j], x)

\* C7: min(final row) <= p5 <= median <= p95 <= max(final row), and the
\* statistics are those of the last row of the matrix alone.
C7_PercentileOrder ==
    pc = "stats" =>
        /\ Leq(Smallest(LastRow), stats.p5)
        /\ Leq(stats.p5, stats.median)
        /\ Leq(stats.median, stats.p95)
        /\ Leq(stats.p95, Largest(LastRow))
        /\ stats = get_price_statistics(<<LastRow>>)

C7_Witness ==
    /\ pc = "stats" /\ days >= 2 /\ sims >= 4
    /\ paths[1] # LastRow
    /\ Less(Smallest(LastRow), stats.p5)
    /\ Less(stats.p5, stats.median)
    /\ Less(stats.median, stats.p95)
    /\ Less(stats.p95, Largest(LastRow))

ReturnOf(j) == Norm(LastRow[j][1] - current_price * LastRow[j][2], current_price * LastRow[j][2])
MeanReturn == Div(Sum([j \in 1..sims |-> ReturnOf(j)]), Float(sims))
MeanSquare == Div(Sum([j \in 1..sims |-> Mul(ReturnOf(j), ReturnOf(j))]), Float(sims))
VarianceOfReturns == Sub(MeanSquare, Mul(MeanReturn, MeanReturn))

\* C10: the Sharpe ratio is mean/stdev of the final-day returns when the
\* stdev is not 0 and is 0 when it is; it is never nan or inf.
C10_Sharpe ==
    pc = "risk" =>
        /\ VarianceOfReturns # Zero =>
               sharpe_ratio = <<"quot", MeanReturn, <<"sqrt", VarianceOfReturns>>>>
        /\ VarianceOfReturns = Zero => sharpe_ratio = <<"int", 0>>
        /\ sharpe_ratio[1] \notin {"nan", "inf"}

C10_Witness ==
    /\ pc = "risk" /\ days >= 2 /\ sims >= 2
    /\ VarianceOfReturns = Zero /\ MeanReturn # Zero
    /\ sharpe_ratio = <<"int", 0>>

=============================================================================
